---- MODULE Spec2Model ----
(***************************************************************************)
(* A model of src/parser.rs of leis-municipais: parse_html_to_lei reads a  *)
(* Windows-1252 HTML page, searches it with four fixed regular            *)
(* expressions and cleans the three mandatory captures with               *)
(* clean_html_to_text.                                                    *)
(*                                                                         *)
(* Text is a sequence of characters, a character being a one-character    *)
(* string; a file is a sequence of bytes (numbers).                       *)
(***************************************************************************)
EXTENDS Naturals, Sequences, FiniteSets, TLC

VARIABLES
    file_name,        \* argument of parse_html_to_lei
    categoria,        \* argument of parse_html_to_lei
    fs,               \* what the file system holds under file_name
    pc,               \* position of the call inside parse_html_to_lei
    dest,             \* the decoded text (String::new() until read)
    captures_titulo,  \* Option<Captures> of TITULO_REGEX
    captures_resumo,  \* Option<Captures> of RESUMO_REGEX
    captures_texto,   \* Option<Captures> of TEXTO_REGEX
    documento,        \* Option<String>
    result,           \* what the call gave its caller
    capture,          \* argument of a direct call of clean_html_to_text
    cpc,              \* position of the direct calls of clean_html_to_text
    cleaned,          \* result of clean_html_to_text(capture)
    recleaned,        \* result of clean_html_to_text(cleaned)
    calls,            \* the locals of each of two concurrent calls
    statics           \* the lazy_static patterns: None until first used

parseVars == <<file_name, categoria, fs, pc, dest, captures_titulo,
               captures_resumo, captures_texto, documento, result>>
cleanVars == <<capture, cpc, cleaned, recleaned>>
parVars == <<calls, statics>>
vars == <<file_name, categoria, fs, pc, dest, captures_titulo,
          captures_resumo, captures_texto, documento, result,
          capture, cpc, cleaned, recleaned, calls, statics>>

-----------------------------------------------------------------------------
(* Bounds of the model.                                                    *)

\* a page is at most MaxSegs page segments long
MaxSegs == 3

\* a fragment handed directly to clean_html_to_text is at most MaxPieces
\* markup pieces long
MaxPieces == 3

-----------------------------------------------------------------------------
(* Generic helpers.                                                        *)

Min(S) == CHOOSE x \in S : \A y \in S : x <= y
Max(S) == CHOOSE x \in S : \A y \in S : y <= x

RECURSIVE Flatten(_)
Flatten(ss) ==
    IF Len(ss) = 0 THEN <<>>
    ELSE IF Len(ss) = 1 THEN ss[1]
    ELSE Flatten(SubSeq(ss, 1, Len(ss) \div 2))
         \o Flatten(SubSeq(ss, Len(ss) \div 2 + 1, Len(ss)))

SeqsUpTo(S, n) == UNION {[1..k -> S] : k \in 0..n}

Count(c, s) == Cardinality({i \in 1..Len(s) : s[i] = c})

\* text[i..] starts with lit
MatchesAt(lit, text, i) ==
    /\ i >= 1
    /\ i + Len(lit) - 1 <= Len(text)
    /\ \A k \in 1..Len(lit) : text[i + k - 1] = lit[k]

None == [some |-> FALSE]
Some(v) == [some |-> TRUE, val |-> v]

-----------------------------------------------------------------------------
(* Decoder: DecodeReaderBytesBuilder with WINDOWS_1252.                    *)

\* The rows of the Windows-1252 table the pages of the model use: one byte,
\* one character.  0x80 and 0xBA are not their own code points' ASCII.
WINDOWS_1252 ==
    (10 :> "\n") @@ (32 :> " ") @@ (34 :> "\"") @@ (45 :> "-") @@ (47 :> "/") @@
    (50 :> "2") @@ (60 :> "<") @@ (61 :> "=") @@ (62 :> ">") @@ (78 :> "N") @@
    (79 :> "O") @@ (83 :> "S") @@ (97 :> "a") @@ (98 :> "b") @@ (99 :> "c") @@
    (100 :> "d") @@ (101 :> "e") @@ (102 :> "f") @@ (103 :> "g") @@ (104 :> "h") @@
    (105 :> "i") @@ (108 :> "l") @@ (109 :> "m") @@ (110 :> "n") @@ (112 :> "p") @@
    (114 :> "r") @@ (115 :> "s") @@ (116 :> "t") @@ (117 :> "u") @@
    (128 :> "€") @@ (186 :> "º")

\* read_to_string over the transcoding reader: every byte becomes the
\* character of its row.
Decode(bytes) == [i \in 1..Len(bytes) |-> WINDOWS_1252[bytes[i]]]

-----------------------------------------------------------------------------
(* The regular expressions.  Each is a literal open, a group holding a     *)
(* greedy repetition of the dot, and a literal close.  Regex::captures     *)
(* gives the leftmost match; the dot matches every character but the line  *)
(* feed.                                                                   *)

TITULO_REGEX ==
    [open  |-> <<"<", "h", "2", ">">>,
     close |-> <<"<", "/", "h", "2", ">">>]
RESUMO_REGEX ==
    [open  |-> <<"<", "/", "h", "2", ">", "<", "b", "r", ">">>,
     close |-> <<"<", "b", "r", ">", "<", "b", "r", ">", "<", "i", "m", "g">>]
TEXTO_REGEX ==
    [open  |-> <<">", "<", "b", "r", ">", "<", "b", "r", ">", "<", "b", "r", ">">>,
     close |-> <<"<", "p", ">", "<", "i", "m", "g">>]
DOCUMENTO_REGEX ==
    [open  |-> <<"b", "t", "n", "-", "d", "e", "f", "a", "u", "l", "t", "\"", " ",
                 "h", "r", "e", "f", "=", "\"">>,
     close |-> <<"\"", " ", "t", "i", "t", "l", "e">>]

\* the dot: with the s flag, which the patterns do not set, and with the
\* regex crate's default flags
DotAll(c) == TRUE
Dot(c) == c # "\n"

\* where a repetition of the dot that starts at position from must stop: the
\* first character the dot does not match (one past the end if none)
DotStops(text, from) ==
    Min({k \in from..Len(text) : ~Dot(text[k])} \cup {Len(text) + 1})

\* the positions where close can follow a repetition of the dot that starts
\* at position from
CloseAfter(re, text, from) ==
    {e \in from..DotStops(text, from) : MatchesAt(re.close, text, e)}

\* the positions where a match of re can start
MatchStarts(re, text) ==
    {s \in 1..Len(text) :
        /\ MatchesAt(re.open, text, s)
        /\ CloseAfter(re, text, s + Len(re.open)) # {}}

\* which of the possible ends the repetition takes
Lazy(ends) == Min(ends)
Greedy(ends) == Max(ends)

\* Regex::captures(text): None, or the match with the span of its group:
\* the group is text[from .. to - 1]
Captures(re, text) ==
    IF MatchStarts(re, text) = {} THEN None
    ELSE LET s    == Min(MatchStarts(re, text))
             from == s + Len(re.open)
             to   == Greedy(CloseAfter(re, text, from))
         IN  Some([start |-> s, from |-> from, to |-> to])

\* &captures["name"]: the text of the group
Group(text, caps) == SubSeq(text, caps.val.from, caps.val.to - 1)

-----------------------------------------------------------------------------
(* clean_html_to_text: TagParser::new parses the capture as an HTML        *)
(* document (tokenizer, then tree builder), TagParser::walk visits the     *)
(* tree and asks the closure what to do with each element.                 *)
(* Outside the alphabet of the model: character references ('&'),          *)
(* comments and doctypes ('<!'), raw-text elements, tables.                *)

BR == <<"b", "r">>

Letters ==
    {"a", "b", "c", "d", "e", "f", "g", "h", "i", "l", "m", "n", "p", "r",
     "s", "t", "u", "x", "B", "N", "O", "R", "S"}
Whitespace == {" ", "\n"}
\* elements that never have children
Void == {<<"b", "r">>, <<"i", "m", "g">>}
\* a start tag of one of these closes an open p element first
ClosesP == {<<"p">>, <<"h", "2">>}

\* tag names are ASCII-lowercased by the tokenizer
Lower(c) ==
    CASE c = "B" -> "b" [] c = "N" -> "n" [] c = "O" -> "o"
      [] c = "R" -> "r" [] c = "S" -> "s" [] OTHER -> c
LowerName(n) == [i \in 1..Len(n) |-> Lower(n[i])]

\* where the tag name that starts at position j ends (one past it)
NameEnd(s, j) ==
    Min({k \in j..Len(s) : s[k] \in Whitespace \cup {"/", ">"}}
        \cup {Len(s) + 1})

\* the position of the '>' that ends the tag, scanning its attributes from
\* position j; 0 when the text ends inside the tag.  q: "plain", "eq"
\* (after '='), "dq" (inside a double-quoted value).  The scan goes from one
\* character that changes q to the next: the closing quote inside a value,
\* '>' or '=' outside one, the first character but white space after '='.
RECURSIVE TagEnd(_, _, _)
TagEnd(s, j, q) ==
    LET e == Min({k \in j..Len(s) :
                     CASE q = "dq" -> s[k] = "\""
                       [] q = "plain" -> s[k] \in {">", "="}
                       [] OTHER -> s[k] \notin Whitespace}
                 \cup {Len(s) + 1})
    IN  IF e > Len(s) THEN 0
        ELSE CASE q = "dq" -> TagEnd(s, e + 1, "plain")
               [] q # "dq" /\ s[e] = ">" -> e
               [] q # "dq" /\ s[e] = "=" -> TagEnd(s, e + 1, "eq")
               [] q = "eq" /\ s[e] = "\"" -> TagEnd(s, e + 1, "dq")
               [] OTHER -> TagEnd(s, e + 1, "plain")

\* '<' followed by a letter opens a start tag, '</' followed by a letter an
\* end tag; any other '<' is a character of the text
OpensStartTag(s, i) == s[i] = "<" /\ i + 1 <= Len(s) /\ s[i + 1] \in Letters
OpensEndTag(s, i) ==
    s[i] = "<" /\ i + 2 <= Len(s) /\ s[i + 1] = "/" /\ s[i + 2] \in Letters

OpensTag(s, i) == OpensStartTag(s, i) \/ OpensEndTag(s, i)

\* where the next tag opens at or after position i (one past the end if none)
NextTag(s, i) == Min({j \in i..Len(s) : OpensTag(s, j)} \cup {Len(s) + 1})

\* the token that starts at position i, and where the one after it starts:
\* a tag, or the run of characters up to the next tag; a tag the text ends
\* in is dropped and ends the tokens
TokenAt(s, i) ==
    IF OpensTag(s, i)
    THEN LET ns == IF OpensStartTag(s, i) THEN i + 1 ELSE i + 2
             ne == NameEnd(s, ns)
             gt == TagEnd(s, ne, "plain")
         IN  IF gt = 0 THEN [toks |-> <<>>, next |-> Len(s) + 1]
             ELSE [toks |->
                      <<[type |-> IF OpensStartTag(s, i) THEN "start" ELSE "end",
                         name |-> LowerName(SubSeq(s, ns, ne - 1))]>>,
                   next |-> gt + 1]
    ELSE [toks |-> <<[type |-> "chars", cs |-> SubSeq(s, i, NextTag(s, i) - 1)]>>,
          next |-> NextTag(s, i)]

\* the tokenizer over the positions lo..hi, in their order: st holds the
\* tokens so far and the position the next token starts at; the positions
\* inside a token are passed over
RECURSIVE Scan(_, _, _, _)
Scan(s, lo, hi, st) ==
    IF lo > hi \/ st.next > hi THEN st
    ELSE IF lo = hi
    THEN [toks |-> st.toks \o TokenAt(s, lo).toks, next |-> TokenAt(s, lo).next]
    ELSE Scan(s, (lo + hi) \div 2 + 1, hi, Scan(s, lo, (lo + hi) \div 2, st))

\* the tokens of s from position i on
Tokenize(s, i) == Scan(s, i, Len(s), [toks |-> <<>>, next |-> i]).toks

Text(cs) == [type |-> "text", contents |-> cs]
Element(name, children) ==
    [type |-> "element", name |-> name, children |-> children]

\* The tree builder's stack of open elements: frames [name, children].  An
\* end tag closes the nearest open element of its name; which element a text
\* node hangs under never changes the order of the text in the document.
AddChild(stack, node) ==
    [stack EXCEPT ![Len(stack)].children = Append(@, node)]

\* characters are appended to the text node before them, if there is one
AddChars(stack, cs) ==
    LET kids == stack[Len(stack)].children
    IN  IF cs = <<>> THEN stack
        ELSE IF kids # <<>> /\ kids[Len(kids)].type = "text"
        THEN [stack EXCEPT ![Len(stack)].children[Len(kids)].contents = @ \o cs]
        ELSE AddChild(stack, Text(cs))

\* close the current element: it becomes a child of the one below it
Pop(stack) ==
    LET top == stack[Len(stack)]
    IN  AddChild(SubSeq(stack, 1, Len(stack) - 1),
                 Element(top.name, top.children))

RECURSIVE PopTo(_, _)
PopTo(stack, k) == IF Len(stack) < k THEN stack ELSE PopTo(Pop(stack), k)

\* the open elements named name, the body (frame 1) apart
OpenNamed(stack, name) == {k \in 2..Len(stack) : stack[k].name = name}

CloseNamed(stack, name) ==
    IF OpenNamed(stack, name) = {} THEN stack
    ELSE PopTo(stack, Max(OpenNamed(stack, name)))

StartTag(stack, name) ==
    LET st == IF name \in ClosesP THEN CloseNamed(stack, <<"p">>) ELSE stack
    IN  IF name \in Void THEN AddChild(st, Element(name, <<>>))
        ELSE Append(st, [name |-> name, children |-> <<>>])

\* the "in body" insertion mode for one token; an end tag </br> is treated
\* as <br>
InBodyToken(stack, t) ==
    CASE t.type = "chars" -> AddChars(stack, t.cs)
      [] t.type = "start" -> StartTag(stack, t.name)
      [] t.type = "end" /\ t.name = BR -> StartTag(stack, BR)
      [] OTHER -> CloseNamed(stack, t.name)

\* the tree builder over the tokens lo..hi, in their order; the body element
\* is never popped, so the stack is never empty
RECURSIVE InBody(_, _, _, _)
InBody(tokens, lo, hi, stack) ==
    IF lo > hi \/ Len(stack) = 0 THEN stack
    ELSE IF lo = hi THEN InBodyToken(stack, tokens[lo])
    ELSE InBody(tokens, (lo + hi) \div 2 + 1, hi,
                InBody(tokens, lo, (lo + hi) \div 2, stack))

\* Before the body exists (insertion modes "initial" to "after head") white
\* space and stray end tags are ignored: the white space a run of characters
\* starts with is dropped, and a run of nothing else is dropped whole.
LeadingSpace(cs) ==
    Min({k \in 1..Len(cs) : cs[k] \notin Whitespace} \cup {Len(cs) + 1}) - 1

Ignorable(t) ==
    \/ t.type = "chars" /\ LeadingSpace(t.cs) = Len(t.cs)
    \/ t.type = "end" /\ t.name # BR

FirstInBody(tokens) ==
    Min({i \in 1..Len(tokens) : ~Ignorable(tokens[i])} \cup {Len(tokens) + 1})

\* the tokens the body is built from
BodyTokens(tokens) ==
    LET i == FirstInBody(tokens)
    IN  IF i > Len(tokens) THEN <<>>
        ELSE IF tokens[i].type = "chars"
        THEN <<[type |-> "chars",
                cs |-> SubSeq(tokens[i].cs, LeadingSpace(tokens[i].cs) + 1,
                              Len(tokens[i].cs))]>>
             \o SubSeq(tokens, i + 1, Len(tokens))
        ELSE SubSeq(tokens, i, Len(tokens))

\* TagParser::new: the document, with the html, head and body elements the
\* tree builder makes
TagParser_new(input) ==
    LET tokens == BodyTokens(Tokenize(input, 1))
        \* at the end of the text every element still open is closed
        body   == PopTo(InBody(tokens, 1, Len(tokens),
                               <<[name |-> <<"b", "o", "d", "y">>,
                                  children |-> <<>>]>>), 2)
    IN  [type |-> "document",
         children |->
            <<Element(<<"h", "t", "m", "l">>,
                <<Element(<<"h", "e", "a", "d">>, <<>>),
                  Element(body[1].name, body[1].children)>>)>>]

\* a Tag as the closure receives it
NewTag(name) ==
    [name |-> name, ignore_self |-> FALSE, ignore_contents |-> FALSE,
     rewrite |-> None]
rewrite_as(tag, text) == [tag EXCEPT !.rewrite = Some(text)]
ignore_self(tag) == [tag EXCEPT !.ignore_self = TRUE]
ignore_self_and_contents(tag) ==
    [tag EXCEPT !.ignore_self = TRUE, !.ignore_contents = TRUE]

\* the closure clean_html_to_text gives to walk
CallbackKeepsTags(tag) ==
    IF tag.name = BR THEN rewrite_as(tag, <<"\n">>) ELSE tag
CallbackDropsContents(tag) ==
    IF tag.name = BR THEN rewrite_as(tag, <<"\n">>)
    ELSE ignore_self_and_contents(tag)
CallbackIgnoresBr(tag) == ignore_self(tag)
Callback(tag) ==
    IF tag.name = BR THEN rewrite_as(tag, <<"\n">>) ELSE ignore_self(tag)

\* TagParser::walk
RECURSIVE internal_walk(_)
internal_walk(node) ==
    LET kids == Flatten([i \in 1..Len(node.children) |->
                            internal_walk(node.children[i])])
    IN  CASE node.type = "text" -> node.contents
          [] node.type = "document" -> kids
          [] OTHER ->
               LET tag == Callback(NewTag(node.name))
               IN  IF tag.ignore_self /\ tag.ignore_contents THEN <<>>
                   ELSE IF tag.rewrite.some THEN tag.rewrite.val
                   ELSE (IF tag.ignore_self THEN <<>>
                         ELSE <<"<">> \o node.name \o <<">">>)
                        \o (IF tag.ignore_contents THEN <<>> ELSE kids)
                        \o (IF tag.ignore_self THEN <<>>
                            ELSE <<"<", "/">> \o node.name \o <<">">>)

clean_html_to_text(input) == internal_walk(TagParser_new(input))

-----------------------------------------------------------------------------
(* The inputs of the model.                                                *)

\* the title, an empty title, a title broken over two lines, the summary,
\* the body and the download button of a page of the site, and a line feed
SegTitulo == <<"<", "h", "2", ">", "N", "º", "<", "/", "h", "2", ">">>
SegTituloVazio == <<"<", "h", "2", ">", "<", "/", "h", "2", ">">>
SegTituloPartido ==
    <<"<", "h", "2", ">", "N", "º", "\n", "<", "/", "h", "2", ">">>
SegResumo ==
    <<"<", "b", "r", ">", "S", "<", "b", "r", ">", "<", "b", "r", ">",
      "<", "i", "m", "g", ">">>
SegTexto ==
    <<"<", "b", "r", ">", "<", "b", "r", ">", "<", "b", "r", ">", "O",
      "<", "p", ">", "<", "i", "m", "g", ">">>
SegDocumento ==
    <<"<", "a", " ", "c", "l", "a", "s", "s", "=", "\"", "b", "t", "n", "-",
      "d", "e", "f", "a", "u", "l", "t", "\"", " ", "h", "r", "e", "f", "=",
      "\"", "u", "\"", " ", "t", "i", "t", "l", "e", "=", "\"", "d", "\"", ">">>
SegLinha == <<"\n">>
\* a whole page of the template: title, summary and body on one line
SegPagina == SegTitulo \o SegResumo \o SegTexto

Segments ==
    {SegPagina, SegTitulo, SegTituloVazio, SegTituloPartido, SegResumo,
     SegTexto, SegDocumento, SegLinha}

\* the bytes of a text in a Windows-1252 file
Encode(text) ==
    [i \in 1..Len(text) |->
        CHOOSE b \in DOMAIN WINDOWS_1252 : WINDOWS_1252[b] = text[i]]

SegmentBytes == {Encode(seg) : seg \in Segments}

\* the files: sequences of at most MaxSegs segments
Pages == {Flatten(p) : p \in SeqsUpTo(SegmentBytes, MaxSegs)}

FileNames ==
    {"resources/unit_tests/Leis_sem_titulo_comh2.html",
     "resources/unit_tests/Leis_sem_resumo.html"}
Categorias == {"test"}

\* the file is not there, cannot be read, or holds a page
FileSystems ==
    {[status |-> "missing", bytes |-> <<>>],
     [status |-> "unreadable", bytes |-> <<>>]}
    \cup {[status |-> "ok", bytes |-> b] : b \in Pages}

\* the fragments clean_html_to_text is called on directly; a capture never
\* holds a line feed
Pieces ==
    {<<"a">>, <<" ">>,
     <<"<", "b", "r", ">">>, <<"<", "b", "r", "/", ">">>,
     <<"<", "B", "R", ">">>, <<"<", "/", "b", "r", ">">>,
     <<"<", "b", "r", " ", "c", "l", "a", "s", "s", "=", "\"", "x", "\"", ">">>,
     <<"<", "b", ">">>, <<"<", "/", "b", ">">>, <<"<", "p", ">">>,
     <<"<", "i", "m", "g", "/", ">">>,
     <<"<", "a", " ", "h", "r", "e", "f", "=", "\"", "u", "\"", ">">>}

Fragments == {Flatten(f) : f \in SeqsUpTo(Pieces, MaxPieces)}

-----------------------------------------------------------------------------
(* Results.                                                                *)

Pending == [kind |-> "none"]
Ok(lei) == [kind |-> "Ok", lei |-> lei]
Err(message) == [kind |-> "Err", message |-> message]
\* expect() on an Err: the thread panics, the call returns nothing
Panic(message) == [kind |-> "panic", message |-> message]

\* The Display of the error of error.rs, as the tests of parser.rs give it:
\* "<field> não encontrado no arquivo <file_name>"
PatternNotFound(field, file) == <<field, " não encontrado no arquivo ", file>>

\* CapturedOkOrUnexpected::ok_or_unexpected of error.rs
ok_or_unexpected(captured, field, file) ==
    IF captured.some THEN [kind |-> "Ok", value |-> captured]
    ELSE Err(PatternNotFound(field, file))

-----------------------------------------------------------------------------
(* parse_html_to_lei, one action per step.                                 *)

NotCleaning ==
    /\ capture = <<>>
    /\ cpc = "idle"
    /\ cleaned = <<>>
    /\ recleaned = <<>>

\* no concurrent calls
NotConcurrent ==
    /\ calls = <<>>
    /\ statics = <<>>

Init ==
    /\ file_name \in FileNames
    /\ categoria \in Categorias
    /\ fs \in FileSystems
    /\ pc = "open"
    /\ dest = <<>>
    /\ captures_titulo = None
    /\ captures_resumo = None
    /\ captures_texto = None
    /\ documento = None
    /\ result = Pending
    /\ NotCleaning
    /\ NotConcurrent

\* the call ends with r
Return(r) ==
    /\ result' = r
    /\ pc' = "done"

\* File::open(file_name).expect(..)
OpenFileReturnsErr ==
    /\ pc = "open"
    /\ IF fs.status = "missing"
       THEN Return(Err(<<"Arquivo que estava na pasta não foi encontrado">>))
       ELSE pc' = "read" /\ UNCHANGED result
    /\ UNCHANGED <<file_name, categoria, fs, dest, captures_titulo,
                   captures_resumo, captures_texto, documento>>
    /\ UNCHANGED cleanVars
    /\ UNCHANGED parVars
OpenFile ==
    /\ pc = "open"
    /\ IF fs.status = "missing"
       THEN Return(Panic("Arquivo que estava na pasta não foi encontrado"))
       ELSE pc' = "read" /\ UNCHANGED result
    /\ UNCHANGED <<file_name, categoria, fs, dest, captures_titulo,
                   captures_resumo, captures_texto, documento>>
    /\ UNCHANGED cleanVars
    /\ UNCHANGED parVars

\* transcoded.read_to_string(&mut dest).expect(..)
ReadToString ==
    /\ pc = "read"
    /\ IF fs.status = "unreadable"
       THEN /\ Return(Panic("O conteúdo do arquivo não é UTF-8 válido"))
            /\ UNCHANGED dest
       ELSE /\ dest' = Decode(fs.bytes)
            /\ pc' = "titulo"
            /\ UNCHANGED result
    /\ UNCHANGED <<file_name, categoria, fs, captures_titulo,
                   captures_resumo, captures_texto, documento>>
    /\ UNCHANGED cleanVars
    /\ UNCHANGED parVars

\* TITULO_REGEX.captures(&dest).ok_or_unexpected("Título", file_name)?
MatchResumoBeforeTitulo ==
    /\ pc = "titulo"
    /\ LET r == ok_or_unexpected(Captures(RESUMO_REGEX, dest), "Resumo",
                                 file_name)
           t == ok_or_unexpected(Captures(TITULO_REGEX, dest), "Título",
                                 file_name)
       IN  IF r.kind = "Err"
           THEN Return(r) /\ UNCHANGED captures_titulo
           ELSE IF t.kind = "Err"
           THEN Return(t) /\ UNCHANGED captures_titulo
           ELSE /\ captures_titulo' = t.value
                /\ pc' = "resumo"
                /\ UNCHANGED result
    /\ UNCHANGED <<file_name, categoria, fs, dest, captures_resumo,
                   captures_texto, documento>>
    /\ UNCHANGED cleanVars
    /\ UNCHANGED parVars
MatchTitulo ==
    /\ pc = "titulo"
    /\ LET r == ok_or_unexpected(Captures(TITULO_REGEX, dest), "Título",
                                 file_name)
       IN  IF r.kind = "Err"
           THEN Return(r) /\ UNCHANGED captures_titulo
           ELSE /\ captures_titulo' = r.value
                /\ pc' = "resumo"
                /\ UNCHANGED result
    /\ UNCHANGED <<file_name, categoria, fs, dest, captures_resumo,
                   captures_texto, documento>>
    /\ UNCHANGED cleanVars
    /\ UNCHANGED parVars

\* RESUMO_REGEX.captures(&dest).ok_or_unexpected("Resumo", file_name)?
MatchResumo ==
    /\ pc = "resumo"
    /\ LET r == ok_or_unexpected(Captures(RESUMO_REGEX, dest), "Resumo",
                                 file_name)
       IN  IF r.kind = "Err"
           THEN Return(r) /\ UNCHANGED captures_resumo
           ELSE /\ captures_resumo' = r.value
                /\ pc' = "texto"
                /\ UNCHANGED result
    /\ UNCHANGED <<file_name, categoria, fs, dest, captures_titulo,
                   captures_texto, documento>>
    /\ UNCHANGED cleanVars
    /\ UNCHANGED parVars

\* TEXTO_REGEX.captures(&dest).ok_or_unexpected("Texto", file_name)?
MatchTextoWrongFile ==
    /\ pc = "texto"
    /\ LET r == ok_or_unexpected(Captures(TEXTO_REGEX, dest), "Texto",
                                 categoria)
       IN  IF r.kind = "Err"
           THEN Return(r) /\ UNCHANGED captures_texto
           ELSE /\ captures_texto' = r.value
                /\ pc' = "documento"
                /\ UNCHANGED result
    /\ UNCHANGED <<file_name, categoria, fs, dest, captures_titulo,
                   captures_resumo, documento>>
    /\ UNCHANGED cleanVars
    /\ UNCHANGED parVars
MatchTexto ==
    /\ pc = "texto"
    /\ LET r == ok_or_unexpected(Captures(TEXTO_REGEX, dest), "Texto",
                                 file_name)
       IN  IF r.kind = "Err"
           THEN Return(r) /\ UNCHANGED captures_texto
           ELSE /\ captures_texto' = r.value
                /\ pc' = "documento"
                /\ UNCHANGED result
    /\ UNCHANGED <<file_name, categoria, fs, dest, captures_titulo,
                   captures_resumo, documento>>
    /\ UNCHANGED cleanVars
    /\ UNCHANGED parVars

\* DOCUMENTO_REGEX.captures(&dest).map(|c| c["documento"].to_string())
MatchDocumentoMandatory ==
    /\ pc = "documento"
    /\ LET r == ok_or_unexpected(Captures(DOCUMENTO_REGEX, dest), "Documento",
                                 file_name)
       IN  IF r.kind = "Err"
           THEN Return(r) /\ UNCHANGED documento
           ELSE /\ documento' = Some(Group(dest, r.value))
                /\ pc' = "build"
                /\ UNCHANGED result
    /\ UNCHANGED <<file_name, categoria, fs, dest, captures_titulo,
                   captures_resumo, captures_texto>>
    /\ UNCHANGED cleanVars
    /\ UNCHANGED parVars
MatchDocumento ==
    /\ pc = "documento"
    /\ LET captures_documento == Captures(DOCUMENTO_REGEX, dest)
       IN  documento' = IF captures_documento.some
                        THEN Some(Group(dest, captures_documento))
                        ELSE None
    /\ pc' = "build"
    /\ UNCHANGED <<file_name, categoria, fs, dest, captures_titulo,
                   captures_resumo, captures_texto, result>>
    /\ UNCHANGED cleanVars
    /\ UNCHANGED parVars

\* Ok(Lei { .. })
BuildLei ==
    /\ pc = "build"
    /\ Return(Ok([titulo    |-> clean_html_to_text(Group(dest, captures_titulo)),
                  resumo    |-> clean_html_to_text(Group(dest, captures_resumo)),
                  texto     |-> clean_html_to_text(Group(dest, captures_texto)),
                  documento |-> documento,
                  categoria |-> categoria]))
    /\ UNCHANGED <<file_name, categoria, fs, dest, captures_titulo,
                   captures_resumo, captures_texto, documento>>
    /\ UNCHANGED cleanVars
    /\ UNCHANGED parVars

Next ==
    \/ OpenFile
    \/ ReadToString
    \/ MatchTitulo
    \/ MatchResumo
    \/ MatchTexto
    \/ MatchDocumento
    \/ BuildLei

Spec == Init /\ [][Next]_vars

-----------------------------------------------------------------------------
(* clean_html_to_text called on a fragment, and again on what it gave.     *)

NotParsing ==
    /\ file_name = ""
    /\ categoria = ""
    /\ fs = [status |-> "missing", bytes |-> <<>>]
    /\ pc = "idle"
    /\ dest = <<>>
    /\ captures_titulo = None
    /\ captures_resumo = None
    /\ captures_texto = None
    /\ documento = None
    /\ result = Pending

InitClean ==
    /\ capture \in Fragments
    /\ cpc = "call"
    /\ cleaned = <<>>
    /\ recleaned = <<>>
    /\ NotParsing
    /\ NotConcurrent

CleanCapture ==
    /\ cpc = "call"
    /\ cleaned' = clean_html_to_text(capture)
    /\ cpc' = "again"
    /\ UNCHANGED <<capture, recleaned>>
    /\ UNCHANGED parseVars
    /\ UNCHANGED parVars

CleanAgain ==
    /\ cpc = "again"
    /\ recleaned' = clean_html_to_text(cleaned)
    /\ cpc' = "done"
    /\ UNCHANGED <<capture, cleaned>>
    /\ UNCHANGED parseVars
    /\ UNCHANGED parVars

NextClean ==
    \/ CleanCapture
    \/ CleanAgain

SpecClean == InitClean /\ [][NextClean]_vars

-----------------------------------------------------------------------------
(* Two calls of parse_html_to_lei on two threads.  Everything a call       *)
(* writes is a local of the call (the record calls[i]); the one thing the  *)
(* calls share is the lazy_static block: each pattern is compiled by the   *)
(* first call that uses it (std::sync::Once) and only read afterwards.     *)

\* a page of the concurrent calls is at most MaxParSegs segments long
MaxParSegs == 2

Invocations == {1, 2}

\* the names of the four statics
Statics == {"TITULO_REGEX", "RESUMO_REGEX", "TEXTO_REGEX", "DOCUMENTO_REGEX"}

\* Regex::new(..).unwrap() of each static
Compile(name) ==
    CASE name = "TITULO_REGEX" -> TITULO_REGEX
      [] name = "RESUMO_REGEX" -> RESUMO_REGEX
      [] name = "TEXTO_REGEX" -> TEXTO_REGEX
      [] name = "DOCUMENTO_REGEX" -> DOCUMENTO_REGEX

\* Deref of a lazy static: the pattern stored, compiled now if this is the
\* first use
Deref(name) ==
    IF statics[name].some THEN statics[name].val ELSE Compile(name)

\* what a use of the static leaves in the lazy_static block
Used(name) == [statics EXCEPT ![name] = Some(Deref(name))]

\* the pages of the two calls: whole pages and download buttons, at most
\* MaxParSegs of them, and two pages that stop short (no summary, no body)
ParSegments == {SegPagina, SegDocumento}
Incomplete == {SegTitulo, SegTitulo \o SegResumo}
ParPages ==
    {Flatten(p) : p \in SeqsUpTo({Encode(seg) : seg \in ParSegments}, MaxParSegs)}
    \cup {Encode(page) : page \in Incomplete}
Documents ==
    {[status |-> "missing", bytes |-> <<>>],
     [status |-> "unreadable", bytes |-> <<>>]}
    \cup {[status |-> "ok", bytes |-> b] : b \in ParPages}

\* the two documents are two files
FileNameOf(i) ==
    IF i = 1 THEN "resources/unit_tests/Leis_sem_titulo_comh2.html"
    ELSE "resources/unit_tests/Leis_sem_resumo.html"

\* the locals of a call that has not started
NewCall(name, cat, doc) ==
    [file_name |-> name, categoria |-> cat, fs |-> doc, pc |-> "open",
     dest |-> <<>>, captures_titulo |-> None, captures_resumo |-> None,
     captures_texto |-> None, documento |-> None,
     titulo |-> <<>>, resumo |-> <<>>, texto |-> <<>>, result |-> Pending]

InitPar ==
    /\ \E docs \in [Invocations -> Documents] :
          calls = [i \in Invocations |-> NewCall(FileNameOf(i), "test", docs[i])]
    /\ statics = [name \in Statics |-> None]
    /\ NotParsing
    /\ NotCleaning

\* call i ends with r
ReturnIn(i, r) == calls' = [calls EXCEPT ![i].result = r, ![i].pc = "done"]

\* File::open(file_name).expect(..)
OpenFileIn(i) ==
    /\ calls[i].pc = "open"
    /\ IF calls[i].fs.status = "missing"
       THEN ReturnIn(i, Panic("Arquivo que estava na pasta não foi encontrado"))
       ELSE calls' = [calls EXCEPT ![i].pc = "read"]
    /\ UNCHANGED statics
    /\ UNCHANGED parseVars
    /\ UNCHANGED cleanVars

\* transcoded.read_to_string(&mut dest).expect(..)
ReadToStringIn(i) ==
    /\ calls[i].pc = "read"
    /\ IF calls[i].fs.status = "unreadable"
       THEN ReturnIn(i, Panic("O conteúdo do arquivo não é UTF-8 válido"))
       ELSE calls' = [calls EXCEPT ![i].dest = Decode(calls[i].fs.bytes),
                                   ![i].pc = "titulo"]
    /\ UNCHANGED statics
    /\ UNCHANGED parseVars
    /\ UNCHANGED cleanVars

\* TITULO_REGEX.captures(&dest).ok_or_unexpected("Título", file_name)?
MatchTituloIn(i) ==
    /\ calls[i].pc = "titulo"
    /\ LET r == ok_or_unexpected(
                   Captures(Deref("TITULO_REGEX"), calls[i].dest),
                   "Título", calls[i].file_name)
       IN  IF r.kind = "Err" THEN ReturnIn(i, r)
           ELSE calls' = [calls EXCEPT ![i].captures_titulo = r.value,
                                       ![i].pc = "resumo"]
    /\ statics' = Used("TITULO_REGEX")
    /\ UNCHANGED parseVars
    /\ UNCHANGED cleanVars

\* RESUMO_REGEX.captures(&dest).ok_or_unexpected("Resumo", file_name)?
MatchResumoIn(i) ==
    /\ calls[i].pc = "resumo"
    /\ LET r == ok_or_unexpected(
                   Captures(Deref("RESUMO_REGEX"), calls[i].dest),
                   "Resumo", calls[i].file_name)
       IN  IF r.kind = "Err" THEN ReturnIn(i, r)
           ELSE calls' = [calls EXCEPT ![i].captures_resumo = r.value,
                                       ![i].pc = "texto"]
    /\ statics' = Used("RESUMO_REGEX")
    /\ UNCHANGED parseVars
    /\ UNCHANGED cleanVars

\* TEXTO_REGEX.captures(&dest).ok_or_unexpected("Texto", file_name)?
MatchTextoIn(i) ==
    /\ calls[i].pc = "texto"
    /\ LET r == ok_or_unexpected(
                   Captures(Deref("TEXTO_REGEX"), calls[i].dest),
                   "Texto", calls[i].file_name)
       IN  IF r.kind = "Err" THEN ReturnIn(i, r)
           ELSE calls' = [calls EXCEPT ![i].captures_texto = r.value,
                                       ![i].pc = "documento"]
    /\ statics' = Used("TEXTO_REGEX")
    /\ UNCHANGED parseVars
    /\ UNCHANGED cleanVars

\* DOCUMENTO_REGEX.captures(&dest).map(|c| c["documento"].to_string())
MatchDocumentoShared(i) ==
    /\ calls[i].pc = "documento"
    /\ LET captures_documento ==
              Captures(Deref("DOCUMENTO_REGEX"), calls[i].dest)
           found == IF captures_documento.some
                    THEN Some(Group(calls[i].dest, captures_documento))
                    ELSE None
       IN  calls' = [j \in Invocations |->
                        IF j = i
                        THEN [calls[j] EXCEPT !.documento = found, !.pc = "clean"]
                        ELSE [calls[j] EXCEPT !.documento = found]]
    /\ statics' = Used("DOCUMENTO_REGEX")
    /\ UNCHANGED parseVars
    /\ UNCHANGED cleanVars
MatchDocumentoIn(i) ==
    /\ calls[i].pc = "documento"
    /\ LET captures_documento ==
              Captures(Deref("DOCUMENTO_REGEX"), calls[i].dest)
       IN  calls' = [calls EXCEPT
                        ![i].documento =
                            IF captures_documento.some
                            THEN Some(Group(calls[i].dest, captures_documento))
                            ELSE None,
                        ![i].pc = "clean"]
    /\ statics' = Used("DOCUMENTO_REGEX")
    /\ UNCHANGED parseVars
    /\ UNCHANGED cleanVars

\* the three clean_html_to_text(&captures_..[..]) of the Lei expression
CleanFieldsIn(i) ==
    /\ calls[i].pc = "clean"
    /\ calls' = [calls EXCEPT
                    ![i].titulo = clean_html_to_text(
                                     Group(calls[i].dest, calls[i].captures_titulo)),
                    ![i].resumo = clean_html_to_text(
                                     Group(calls[i].dest, calls[i].captures_resumo)),
                    ![i].texto = clean_html_to_text(
                                    Group(calls[i].dest, calls[i].captures_texto)),
                    ![i].pc = "build"]
    /\ UNCHANGED statics
    /\ UNCHANGED parseVars
    /\ UNCHANGED cleanVars

\* Ok(Lei { .. })
BuildLeiIn(i) ==
    /\ calls[i].pc = "build"
    /\ ReturnIn(i, Ok([titulo    |-> calls[i].titulo,
                       resumo    |-> calls[i].resumo,
                       texto     |-> calls[i].texto,
                       documento |-> calls[i].documento,
                       categoria |-> calls[i].categoria]))
    /\ UNCHANGED statics
    /\ UNCHANGED parseVars
    /\ UNCHANGED cleanVars

\* the threads are scheduled freely: any call that has not ended may take
\* its next step
NextPar ==
    \/ \E i \in Invocations : OpenFileIn(i)
    \/ \E i \in Invocations : ReadToStringIn(i)
    \/ \E i \in Invocations : MatchTituloIn(i)
    \/ \E i \in Invocations : MatchResumoIn(i)
    \/ \E i \in Invocations : MatchTextoIn(i)
    \/ \E i \in Invocations : MatchDocumentoIn(i)
    \/ \E i \in Invocations : CleanFieldsIn(i)
    \/ \E i \in Invocations : BuildLeiIn(i)

SpecPar == InitPar /\ [][NextPar]_vars

\* parse_html_to_lei run from its first line to its return with nothing else
\* running: what a call gives when the two calls run one after the other
parse_html_to_lei(name, cat, doc) ==
    IF doc.status = "missing"
    THEN Panic("Arquivo que estava na pasta não foi encontrado")
    ELSE IF doc.status = "unreadable"
    THEN Panic("O conteúdo do arquivo não é UTF-8 válido")
    ELSE LET text == Decode(doc.bytes)
             t == ok_or_unexpected(Captures(TITULO_REGEX, text), "Título", name)
             r == ok_or_unexpected(Captures(RESUMO_REGEX, text), "Resumo", name)
             x == ok_or_unexpected(Captures(TEXTO_REGEX, text), "Texto", name)
             d == Captures(DOCUMENTO_REGEX, text)
         IN  IF t.kind = "Err" THEN t
             ELSE IF r.kind = "Err" THEN r
             ELSE IF x.kind = "Err" THEN x
             ELSE Ok([titulo    |-> clean_html_to_text(Group(text, t.value)),
                      resumo    |-> clean_html_to_text(Group(text, r.value)),
                      texto     |-> clean_html_to_text(Group(text, x.value)),
                      documento |-> IF d.some THEN Some(Group(text, d))
                                    ELSE None,
                      categoria |-> cat])

-----------------------------------------------------------------------------
(* parse_html_to_lei on pages whose fields are broken over lines: the      *)
(* steps of Spec, on files in which each field comes whole or with a line  *)
(* feed between its opening and its closing anchor.                        *)

\* such a page is at most MaxLineSegs segments long
MaxLineSegs == 3

\* the summary, the body and the download button with a line feed before
\* the closing anchor
SegResumoPartido ==
    <<"<", "b", "r", ">", "S", "\n", "<", "b", "r", ">", "<", "b", "r", ">",
      "<", "i", "m", "g", ">">>
SegTextoPartido ==
    <<"<", "b", "r", ">", "<", "b", "r", ">", "<", "b", "r", ">", "O", "\n",
      "<", "p", ">", "<", "i", "m", "g", ">">>
SegDocumentoPartido ==
    <<"<", "a", " ", "c", "l", "a", "s", "s", "=", "\"", "b", "t", "n", "-",
      "d", "e", "f", "a", "u", "l", "t", "\"", " ", "h", "r", "e", "f", "=",
      "\"", "u", "\n", "\"", " ", "t", "i", "t", "l", "e", "=", "\"", "d", "\"",
      ">">>

LineSegments ==
    {SegPagina, SegTitulo, SegTituloPartido, SegResumo, SegResumoPartido,
     SegTextoPartido, SegDocumento, SegDocumentoPartido}

LinePages ==
    {Flatten(p) : p \in SeqsUpTo({Encode(seg) : seg \in LineSegments},
                                 MaxLineSegs)}

LineFileSystems ==
    {[status |-> "missing", bytes |-> <<>>],
     [status |-> "unreadable", bytes |-> <<>>]}
    \cup {[status |-> "ok", bytes |-> b] : b \in LinePages}

InitLines ==
    /\ file_name = FileNameOf(1)
    /\ categoria \in Categorias
    /\ fs \in LineFileSystems
    /\ pc = "open"
    /\ dest = <<>>
    /\ captures_titulo = None
    /\ captures_resumo = None
    /\ captures_texto = None
    /\ documento = None
    /\ result = Pending
    /\ NotCleaning
    /\ NotConcurrent

SpecLines == InitLines /\ [][Next]_vars

-----------------------------------------------------------------------------
(* What the properties below speak of.                                     *)

\* the pattern has a match in the decoded text
Has(re) == Captures(re, dest).some

\* the call returned a value to its caller
Returned == pc = "done" /\ result.kind \in {"Ok", "Err"}

MandatoryFields == {"Título", "Resumo", "Texto"}
RegexOf(field) ==
    CASE field = "Título" -> TITULO_REGEX
      [] field = "Resumo" -> RESUMO_REGEX
      [] field = "Texto" -> TEXTO_REGEX
CapturesOf(field) ==
    CASE field = "Título" -> captures_titulo
      [] field = "Resumo" -> captures_resumo
      [] field = "Texto" -> captures_texto
FieldOf(lei, field) ==
    CASE field = "Título" -> lei.titulo
      [] field = "Resumo" -> lei.resumo
      [] field = "Texto" -> lei.texto

\* Markup read off the characters, without the parser: position i lies in a
\* tag when the last '<' at or before it has no '>' after it before i.
InMarkup(s, i) ==
    Max({0} \cup {k \in 1..i : s[k] = "<"})
        > Max({0} \cup {k \in 1..(i - 1) : s[k] = ">"})

\* a line-break tag (<br>, <BR>, <br/>, <br ..>, </br>) opens at position a
IsBrAt(s, a) ==
    /\ s[a] = "<"
    /\ LET n == IF a + 1 <= Len(s) /\ s[a + 1] = "/" THEN a + 2 ELSE a + 1
       IN  /\ n + 2 <= Len(s)
           /\ s[n] \in {"b", "B"}
           /\ s[n + 1] \in {"r", "R"}
           /\ s[n + 2] \in {">", "/", " "}

BrTagCount(s) == Cardinality({a \in 1..Len(s) : IsBrAt(s, a)})

\* a start tag or a line-break tag opens at position a
IsOpenerAt(s, a) ==
    /\ s[a] = "<"
    /\ a + 1 <= Len(s)
    /\ s[a + 1] # "/" \/ IsBrAt(s, a)

\* white space with nothing before it but white space and end tags
LeadingSpaceAt(s, i) ==
    /\ s[i] \in Whitespace
    /\ \A k \in 1..(i - 1) :
          /\ ~IsOpenerAt(s, k)
          /\ InMarkup(s, k) \/ s[k] \in Whitespace

\* the positions that show in the plain text: the line-break tags and the
\* characters outside tags, leading white space apart
Kept(s) ==
    {i \in 1..Len(s) :
        \/ IsBrAt(s, i)
        \/ ~InMarkup(s, i) /\ ~LeadingSpaceAt(s, i)}

\* the plain text of s: its kept positions from left to right, a line feed
\* for a line-break tag
PlainText(s) ==
    LET K == Kept(s)
    IN  [k \in 1..Cardinality(K) |->
            LET i == CHOOSE i \in K : Cardinality({j \in K : j <= i}) = k
            IN  IF s[i] = "<" THEN "\n" ELSE s[i]]

-----------------------------------------------------------------------------
(* C1..C7: parse_html_to_lei (specification Spec).                         *)

\* C1: the mandatory fields are checked in the order title, summary, body
\* and the call returns the failure of the first whose pattern has no match;
\* a record is returned only when all three match, and nothing is returned
\* before the call ends.
C1_FirstMissingFieldFails ==
    /\ pc # "done" => result = Pending
    /\ Returned =>
          IF ~Has(TITULO_REGEX)
          THEN result.kind = "Err" /\ result.message[1] = "Título"
          ELSE IF ~Has(RESUMO_REGEX)
          THEN result.kind = "Err" /\ result.message[1] = "Resumo"
          ELSE IF ~Has(TEXTO_REGEX)
          THEN result.kind = "Err" /\ result.message[1] = "Texto"
          ELSE /\ result.kind = "Ok"
               /\ DOMAIN result.lei =
                     {"titulo", "categoria", "resumo", "texto", "documento"}

\* C1 witness: the summary and the body are both missing and the failure
\* returned is the summary's.
C1_Witness ==
    /\ Returned
    /\ Has(TITULO_REGEX) /\ ~Has(RESUMO_REGEX) /\ ~Has(TEXTO_REGEX)
    /\ result.kind = "Err" /\ result.message[1] = "Resumo"

\* C2: with title, summary and body matched the call succeeds whether the
\* link pattern matches or not; documento is None exactly when it does not,
\* the three fields are the cleaned groups either way, and a page without
\* the link gives the fields the same page gives with the download button
\* added at its end.
C2_LinkNeverFails ==
    (Returned /\ \A f \in MandatoryFields : Has(RegexOf(f))) =>
       /\ result.kind = "Ok"
       /\ result.lei.documento.some <=> Has(DOCUMENTO_REGEX)
       /\ \A f \in MandatoryFields :
             FieldOf(result.lei, f) =
                clean_html_to_text(Group(dest, Captures(RegexOf(f), dest)))
       /\ ~Has(DOCUMENTO_REGEX) =>
             LET linked == dest \o SegDocumento
             IN  /\ Captures(DOCUMENTO_REGEX, linked).some
                 /\ \A f \in MandatoryFields :
                       /\ Captures(RegexOf(f), linked).some
                       /\ FieldOf(result.lei, f) =
                             clean_html_to_text(
                                Group(linked, Captures(RegexOf(f), linked)))

\* C2 witness: a record without a link.
C2_Witness ==
    /\ Returned /\ result.kind = "Ok"
    /\ ~Has(DOCUMENTO_REGEX)
    /\ result.lei.documento = None
    /\ result.lei.titulo # <<>>

\* C3 as stated: the titulo, resumo and texto of a returned record are never
\* empty.
C3_FieldsNonEmpty ==
    (Returned /\ result.kind = "Ok") =>
       \A f \in MandatoryFields : FieldOf(result.lei, f) # <<>>

\* C3 amended: in a returned record all three patterns matched, and a field
\* is non-empty exactly when its group shows something in plain text (a
\* character outside tags that is not leading white space, or a line-break
\* tag); the group <h2></h2> captures gives the empty title.
C3_FieldsMatchedMaybeEmpty ==
    (Returned /\ result.kind = "Ok") =>
       \A f \in MandatoryFields :
          /\ CapturesOf(f).some
          /\ FieldOf(result.lei, f) # <<>>
                <=> Kept(Group(dest, CapturesOf(f))) # {}

\* C3 witness: a record with an empty title beside a non-empty summary.
C3_Witness ==
    /\ Returned /\ result.kind = "Ok"
    /\ result.lei.titulo = <<>>
    /\ result.lei.resumo # <<>>

\* the positions from at or after which close occurs in the whole text
ClosesFrom(re, text, from) ==
    {e \in from..(Len(text) + 1) : MatchesAt(re.close, text, e)}

\* the first line feed at or after position from (one past the end if none)
LineEnd(text, from) ==
    Min({k \in from..Len(text) : text[k] = "\n"} \cup {Len(text) + 1})

\* C4 as stated: the group of a title, summary or body match ends at the
\* last occurrence of the closing anchor in the whole document.
C4_LastCloseInDocument ==
    \A f \in MandatoryFields :
       CapturesOf(f).some =>
          CapturesOf(f).val.to =
             Max(ClosesFrom(RegexOf(f), dest, CapturesOf(f).val.from))

\* C4 amended: the group starts right after the leftmost opening anchor that
\* has a closing anchor later on its line, holds no line feed, and ends at
\* the last occurrence of the closing anchor before the next line feed.
C4_LastCloseOnLine ==
    \A f \in MandatoryFields :
       CapturesOf(f).some =>
          LET re   == RegexOf(f)
              c    == CapturesOf(f).val
              line == LineEnd(dest, c.from)
          IN  /\ MatchesAt(re.open, dest, c.from - Len(re.open))
              /\ c.to = Max({e \in ClosesFrom(re, dest, c.from) : e < line})
              /\ Count("\n", Group(dest, CapturesOf(f))) = 0
              /\ \A s \in 1..(c.from - Len(re.open) - 1) :
                    MatchesAt(re.open, dest, s) =>
                       \A e \in ClosesFrom(re, dest, s + Len(re.open)) :
                          e > LineEnd(dest, s + Len(re.open))

\* C4 witness: the closing anchor of the title occurs three times; the group
\* runs over the first and stops at the second, the third being on the next
\* line.
C4_Witness ==
    /\ captures_titulo.some
    /\ Cardinality(ClosesFrom(TITULO_REGEX, dest, captures_titulo.val.from)) = 3
    /\ captures_titulo.val.to
          # Min(ClosesFrom(TITULO_REGEX, dest, captures_titulo.val.from))
    /\ captures_titulo.val.to
          # Max(ClosesFrom(TITULO_REGEX, dest, captures_titulo.val.from))

\* C5 as stated: every failure, an I/O failure included, comes back to the
\* caller as a typed result.
C5_EveryFailureReturned ==
    pc = "done" => result.kind \in {"Ok", "Err"}

\* C5 amended: a missing title, summary or body comes back as a typed
\* failure; a file that cannot be opened or read makes the call panic
\* (expect) instead of returning; once the call has ended, by a result or a
\* panic, it takes no further step, so nothing is retried.
C5_IoFailurePanics ==
    pc = "done" =>
       /\ result.kind = "panic" <=> fs.status \in {"missing", "unreadable"}
       /\ result.kind = "panic" => dest = <<>>
       /\ result.kind = "Err" <=>
             /\ fs.status = "ok"
             /\ \E f \in MandatoryFields : ~Has(RegexOf(f))
       /\ ~ENABLED Next

\* C5 witness: the file was opened and could not be read.
C5_Witness ==
    /\ pc = "done"
    /\ fs.status = "unreadable"
    /\ result.kind = "panic"

\* C6: a returned failure names the first missing field and ends with the
\* file_name argument, unchanged:
\* "<Field> não encontrado no arquivo <file_name>".
C6_FailureNamesFieldAndFile ==
    (Returned /\ result.kind = "Err") =>
       /\ Len(result.message) = 3
       /\ result.message[1] \in MandatoryFields
       /\ ~Has(RegexOf(result.message[1]))
       /\ result.message[2] = " não encontrado no arquivo "
       /\ result.message[3] = file_name

\* C6 witness: the body is the missing field.
C6_Witness ==
    /\ Returned /\ result.kind = "Err"
    /\ result.message[1] = "Texto"
    /\ result.message[3] = file_name

\* the value of the href attribute that follows the first btn-default class
\* marker: the characters up to the next double quote
HrefValue(text) ==
    LET from == Min({s \in 1..Len(text) :
                        MatchesAt(DOCUMENTO_REGEX.open, text, s)})
                + Len(DOCUMENTO_REGEX.open)
        to   == Min({k \in from..Len(text) : text[k] = "\""})
    IN  SubSeq(text, from, to - 1)

\* C7 as stated: the documento of a returned record is the value of the
\* href attribute of the btn-default element and nothing more.
C7_DocumentoIsHref ==
    (Returned /\ result.kind = "Ok" /\ result.lei.documento.some) =>
       result.lei.documento.val = HrefValue(dest)

-----------------------------------------------------------------------------
(* C8..C10: clean_html_to_text (specification SpecClean).                  *)

\* C8: every line-break tag of the fragment, whatever its attributes,
\* becomes exactly one line feed: the output holds as many line feeds as the
\* fragment holds line-break tags (a capture holds no line feed of its own).
C8_OneLineFeedPerBr ==
    cpc # "call" =>
       /\ Count("\n", capture) = 0
       /\ Count("\n", cleaned) = BrTagCount(capture)

\* C8 witness: three line-break tags, one of them with an attribute.
C8_Witness ==
    /\ cpc = "again"
    /\ BrTagCount(capture) = 3
    /\ Count("=", capture) = 1
    /\ Count("\n", cleaned) = 3

\* C9: the markup of every other tag is removed, the text inside it is kept,
\* and the output is the kept text and the line feeds in the order of the
\* fragment.
C9_TagsStrippedTextKept ==
    cpc # "call" =>
       /\ Count("<", cleaned) = 0
       /\ Count(">", cleaned) = 0
       /\ cleaned = PlainText(capture)

\* C9 witness: text nested in a tag with an attribute, followed by a
\* line-break tag.
C9_Witness ==
    /\ cpc = "again"
    /\ capture = <<"<", "a", " ", "h", "r", "e", "f", "=", "\"", "u", "\"", ">",
                   "a", "<", "b", "r", ">">>
    /\ cleaned = <<"a", "\n">>

\* C10 as stated: text without tags comes back unchanged, and cleaning the
\* output again gives the same output.
C10_PlainTextUnchanged ==
    /\ (cpc # "call" /\ Count("<", capture) = 0) => cleaned = capture
    /\ cpc = "done" => recleaned = cleaned

-----------------------------------------------------------------------------
(* C11: two concurrent calls (specification SpecPar).                      *)

\* C11: under every interleaving of the steps of two calls on two documents
\* each call that has ended gave what it gives when run alone, a call that
\* has not ended has given nothing, the locals of a call hold its own
\* document only, and the shared patterns are either not yet compiled or the
\* compiled patterns, never anything else.
C11_InterleavingSameAsSequential ==
    /\ \A i \in Invocations :
          /\ calls[i].pc = "done" =>
                calls[i].result =
                   parse_html_to_lei(calls[i].file_name, calls[i].categoria,
                                     calls[i].fs)
          /\ calls[i].pc # "done" => calls[i].result = Pending
          /\ calls[i].dest \in {<<>>, Decode(calls[i].fs.bytes)}
          /\ calls[i].documento.some =>
                /\ Captures(DOCUMENTO_REGEX, calls[i].dest).some
                /\ calls[i].documento.val =
                      Group(calls[i].dest,
                            Captures(DOCUMENTO_REGEX, calls[i].dest))
    /\ \A name \in Statics : statics[name] \in {None, Some(Compile(name))}

\* C11 witness: the two calls have overlapped: the second call, on a page
\* with a link, is between its searches and its cleaning when the first
\* call, on a different page without a link, has already returned its
\* record.
C11_Witness ==
    /\ calls[1].pc = "done" /\ calls[1].result.kind = "Ok"
    /\ calls[1].result.lei.documento = None
    /\ calls[2].pc = "clean" /\ calls[2].documento.some
    /\ calls[1].dest # calls[2].dest
    /\ \A name \in Statics : statics[name].some

-----------------------------------------------------------------------------
(* C12: fields broken over lines (specification SpecLines).                *)

\* Read off the text, without the matcher: some opening anchor of re has a
\* closing anchor after it with no line feed between the two.
OnOneLine(re, text) ==
    \E s \in 1..Len(text) :
       /\ MatchesAt(re.open, text, s)
       /\ \E e \in (s + Len(re.open))..(Len(text) + 1) :
             /\ MatchesAt(re.close, text, e)
             /\ Count("\n", SubSeq(text, s + Len(re.open), e - 1)) = 0

\* both anchors of re occur in the text, but never on one line
OnlyOnDifferentLines(re, text) ==
    /\ \E s \in 1..Len(text) : MatchesAt(re.open, text, s)
    /\ \E e \in 1..Len(text) : MatchesAt(re.close, text, e)
    /\ ~OnOneLine(re, text)

FieldOrder == <<"Título", "Resumo", "Texto">>

\* the first mandatory field, in the order of the checks, whose anchors are
\* not on one line (0 if there is none)
FirstNotOnOneLine(text) ==
    Min({k \in 1..3 : ~OnOneLine(RegexOf(FieldOrder[k]), text)} \cup {4}) % 4

\* No raw capture (the group of the title, summary or body match, or the
\* link) holds a line feed, and a pattern has a match exactly when an
\* opening and a closing anchor of it lie on one line.  (The cleaned fields
\* of the record may hold line feeds: those its line-break tags became.)
CapturesStayOnLine ==
    /\ \A f \in MandatoryFields :
          CapturesOf(f).some =>
             /\ Count("\n", Group(dest, CapturesOf(f))) = 0
             /\ OnOneLine(RegexOf(f), dest)
    /\ documento.some => Count("\n", documento.val) = 0
    /\ (pc = "done" /\ result.kind = "Ok" /\ result.lei.documento.some) =>
          Count("\n", result.lei.documento.val) = 0
    /\ \A re \in {TITULO_REGEX, RESUMO_REGEX, TEXTO_REGEX, DOCUMENTO_REGEX} :
          Has(re) <=> OnOneLine(re, dest)

\* C12 as stated: no capture holds a line feed, a pattern matches only with
\* its anchors on one line, and a page on which the anchors of a mandatory
\* field are only ever on different lines gives that field's failure.
C12_SplitFieldFailsAsItself ==
    /\ CapturesStayOnLine
    /\ \A f \in MandatoryFields :
          (Returned /\ OnlyOnDifferentLines(RegexOf(f), dest)) =>
             result = Err(PatternNotFound(f, file_name))

\* C12 amended: no capture holds a line feed and a pattern matches only with
\* its anchors on one line; a page on which the anchors of a mandatory field
\* are only ever on different lines gives a not-found failure, which is that
\* of the first field, in the order title, summary, body, that has no match:
\* the field's own when every field before it matches, an earlier field's
\* otherwise.  A link broken over lines gives no failure: documento is None.
C12_SplitFieldFailsFirstMissing ==
    /\ CapturesStayOnLine
    /\ \A k \in 1..3 :
          (Returned /\ OnlyOnDifferentLines(RegexOf(FieldOrder[k]), dest)) =>
             /\ FirstNotOnOneLine(dest) \in 1..k
             /\ result = Err(PatternNotFound(
                               FieldOrder[FirstNotOnOneLine(dest)], file_name))
    /\ (Returned /\ FirstNotOnOneLine(dest) = 0
           /\ OnlyOnDifferentLines(DOCUMENTO_REGEX, dest)) =>
          result.kind = "Ok" /\ result.lei.documento = None

\* C12 witness: the title matches on its line, the summary on the same page
\* has its anchors only on different lines, and the call returned the
\* summary's failure.
C12_Witness ==
    /\ Returned
    /\ captures_titulo.some
    /\ OnlyOnDifferentLines(RESUMO_REGEX, dest)
    /\ result = Err(PatternNotFound("Resumo", file_name))

====
